---------------------------- MODULE Spec2Model ----------------------------
(***************************************************************************)
(* The calculator of calculator_frontend/src/components/Calculator.jsx.    *)
(*                                                                         *)
(* A JavaScript string is a sequence of one-character strings; the         *)
(* operator symbols × and ÷ are named Times and Divide.  A number is a     *)
(* record: NaN, a finite number that is an exact multiple of 1/Scale (held *)
(* as the integer n = value * Scale), or a finite number outside that grid *)
(* (k = "other"), whose digits are not tracked.  On the grid and within    *)
(* MaxAbs, IEEE-754 double arithmetic is exact and String() prints the     *)
(* exact decimal expansion, so the operators below compute what the code   *)
(* computes.  A result off the grid is the string Unmodelled, and no       *)
(* action takes a step into a state that holds it.                         *)
(***************************************************************************)
EXTENDS Integers, Sequences, FiniteSets, TLC

VARIABLES currentValue, previousValue, operator, overwrite, error, script, pos

vars == <<currentValue, previousValue, operator, overwrite, error, script, pos>>

(* ------------------------------ bounds --------------------------------- *)

\* Longest entry the user types, in characters.
MaxLen == 3

\* Largest magnitude of a computed result.
MaxAbs == 20

\* Binary fraction digits of the numbers tracked exactly.
FracBits == 1

\* The digit buttons pressed in any order (Spec).
Digits == {"0", "1", "5"}

\* The operator symbols of the four operator buttons; Times is "×" and
\* Divide is "÷".
Plus == "+"

Minus == "-"

Times == "times"

Divide == "divide"

Ops == {Plus, Minus, Times, Divide}

(* ------------------------------ strings -------------------------------- *)

AllDigits == {"0", "1", "2", "3", "4", "5", "6", "7", "8", "9"}

DigitVal(c) ==
  CASE c = "0" -> 0 [] c = "1" -> 1 [] c = "2" -> 2 [] c = "3" -> 3
    [] c = "4" -> 4 [] c = "5" -> 5 [] c = "6" -> 6 [] c = "7" -> 7
    [] c = "8" -> 8 [] c = "9" -> 9

DigitChar(i) ==
  CASE i = 0 -> "0" [] i = 1 -> "1" [] i = 2 -> "2" [] i = 3 -> "3"
    [] i = 4 -> "4" [] i = 5 -> "5" [] i = 6 -> "6" [] i = 7 -> "7"
    [] i = 8 -> "8" [] i = 9 -> "9"

Null == <<"null">>

NoOp == "null"

ErrorStr == <<"E", "r", "r", "o", "r">>

NaNStr == <<"N", "a", "N">>

Unmodelled == <<"?">>

Zero == <<"0">>

ZeroDot == <<"0", ".">>

RECURSIVE Pow(_, _)
Pow(b, e) == IF e = 0 THEN 1 ELSE b * Pow(b, e - 1)

Scale == Pow(2, FracBits)

Abs(x) == IF x < 0 THEN -x ELSE x

(* ------------------------------ numbers -------------------------------- *)

NaN == [k |-> "nan", n |-> 0]

Other == [k |-> "other", n |-> 0]

Num(n) == [k |-> "num", n |-> n]

\* Length of the longest prefix of s, from index i on, made of digits.
RECURSIVE DigitRun(_, _)
DigitRun(s, i) ==
  IF i <= Len(s) /\ s[i] \in AllDigits THEN 1 + DigitRun(s, i + 1) ELSE 0

\* The value of the digits s[i .. i+len-1].
RECURSIVE DigitsVal(_, _, _)
DigitsVal(s, i, len) ==
  IF len = 0 THEN 0
  ELSE DigitsVal(s, i, len - 1) * 10 + DigitVal(s[i + len - 1])

\* parseFloat(s): the longest prefix [-]digits[.digits]; NaN when it holds no
\* digit.  A fraction that is no multiple of 1/Scale parses to a number off
\* the grid.  (No string of the model carries an exponent.)
parseFloat(s) ==
  LET neg == Len(s) >= 1 /\ s[1] = "-"
      i0 == IF neg THEN 2 ELSE 1
      il == DigitRun(s, i0)
      hasDot == i0 + il <= Len(s) /\ s[i0 + il] = "."
      fl == IF hasDot THEN DigitRun(s, i0 + il + 1) ELSE 0
      ip == DigitsVal(s, i0, il)
      fp == DigitsVal(s, i0 + il + 1, fl)
      den == Pow(10, fl)
      mag == ip * Scale + (fp * Scale) \div den
  IN  IF s = Unmodelled THEN Other
      ELSE IF il = 0 /\ fl = 0 THEN NaN
      ELSE IF (fp * Scale) % den # 0 THEN Other
      ELSE Num(IF neg THEN -mag ELSE mag)

\* Number(s): as parseFloat, but the whole string must be the literal.
NumberOf(s) ==
  LET neg == Len(s) >= 1 /\ s[1] = "-"
      i0 == IF neg THEN 2 ELSE 1
      il == DigitRun(s, i0)
      hasDot == i0 + il <= Len(s) /\ s[i0 + il] = "."
      fl == IF hasDot THEN DigitRun(s, i0 + il + 1) ELSE 0
      used == (i0 - 1) + il + (IF hasDot THEN 1 + fl ELSE 0)
  IN  IF Len(s) = 0 THEN Num(0)
      ELSE IF used # Len(s) THEN NaN
      ELSE parseFloat(s)

\* The decimal digits of the natural number i.
RECURSIVE NatToString(_)
NatToString(i) ==
  IF i < 10 THEN <<DigitChar(i)>>
  ELSE Append(NatToString(i \div 10), DigitChar(i % 10))

\* The digits of f written on w places, zero-padded on the left.
RECURSIVE PadDigits(_, _)
PadDigits(f, w) ==
  IF w = 0 THEN <<>>
  ELSE Append(PadDigits(f \div 10, w - 1), DigitChar(f % 10))

RECURSIVE StripTrailingZeros(_)
StripTrailingZeros(s) ==
  IF Len(s) > 0 /\ s[Len(s)] = "0"
  THEN StripTrailingZeros(SubSeq(s, 1, Len(s) - 1))
  ELSE s

\* String(x): a number of the grid prints as its exact decimal expansion
\* (r / 2^FracBits = r * 5^FracBits / 10^FracBits); -0 and 0 print as "0".
NumToString(x) ==
  IF x.k = "nan" THEN NaNStr
  ELSE IF x.k = "other" THEN Unmodelled
  ELSE LET a == Abs(x.n)
           ip == NatToString(a \div Scale)
           fr == StripTrailingZeros(PadDigits((a % Scale) * Pow(5, FracBits), FracBits))
           body == IF fr = <<>> THEN ip ELSE ip \o <<".">> \o fr
       IN  IF x.n < 0 THEN <<"-">> \o body ELSE body

\* A result of the arithmetic: tracked when it lies on the grid within MaxAbs.
Tracked(n) == IF Abs(n) <= MaxAbs * Scale THEN Num(n) ELSE Other

\* a op b on JavaScript numbers, for a, b not NaN and (for Divide) b # 0.
Arith(a, b, op) ==
  IF a.k = "other" \/ b.k = "other" THEN Other
  ELSE CASE op = Plus -> Tracked(a.n + b.n)
         [] op = Minus -> Tracked(a.n - b.n)
         [] op = Times -> IF (a.n * b.n) % Scale = 0
                        THEN Tracked((a.n * b.n) \div Scale)
                        ELSE Other
         [] op = Divide -> LET q == Abs(a.n) * Scale
                            d == Abs(b.n)
                            sg == IF (a.n < 0) = (b.n < 0) THEN 1 ELSE -1
                        IN  IF q % d = 0 THEN Tracked(sg * (q \div d)) ELSE Other

(* ------------------------------ helpers -------------------------------- *)

startsWith(s, p) == Len(s) >= Len(p) /\ SubSeq(s, 1, Len(p)) = p

sanitizeNumberString(str) ==
  IF str = <<>> THEN Zero
  ELSE IF str = Zero THEN Zero
  ELSE IF startsWith(str, Zero) /\ ~startsWith(str, ZeroDot) /\ Len(str) > 1
       THEN NumToString(NumberOf(str))
  ELSE str

\* compute with the zero test on the dividend instead of the divisor.
compute_TestsDividend(aStr, bStr, op) ==
  LET a == parseFloat(aStr)
      b == parseFloat(bStr)
  IN  IF a.k = "nan" \/ b.k = "nan" THEN Zero
      ELSE CASE op = Plus -> NumToString(Arith(a, b, Plus))
             [] op = Minus -> NumToString(Arith(a, b, Minus))
             [] op = Times -> NumToString(Arith(a, b, Times))
             [] op = Divide -> IF a.k = "num" /\ a.n = 0 THEN ErrorStr
                               ELSE IF b.k = "num" /\ b.n = 0 THEN Unmodelled
                               ELSE NumToString(Arith(a, b, Divide))
             [] OTHER -> bStr

compute(aStr, bStr, op) ==
  LET a == parseFloat(aStr)
      b == parseFloat(bStr)
  IN  IF a.k = "nan" \/ b.k = "nan" THEN Zero
      ELSE CASE op = Plus -> NumToString(Arith(a, b, Plus))
             [] op = Minus -> NumToString(Arith(a, b, Minus))
             [] op = Times -> NumToString(Arith(a, b, Times))
             [] op = Divide -> IF b.k = "num" /\ b.n = 0 THEN ErrorStr
                               ELSE NumToString(Arith(a, b, Divide))
             [] OTHER -> bStr

(* ------------------------------- state --------------------------------- *)

\* The five useState cells, as one record.
State ==
  [currentValue |-> currentValue, previousValue |-> previousValue,
   operator |-> operator, overwrite |-> overwrite, error |-> error]

\* The useState initial values.
InitialState ==
  [currentValue |-> Zero, previousValue |-> Null, operator |-> NoOp,
   overwrite |-> FALSE, error |-> FALSE]

\* The state entered on a division by zero (onOperator, onEquals).
ErrorState ==
  [currentValue |-> ErrorStr, previousValue |-> Null, operator |-> NoOp,
   overwrite |-> TRUE, error |-> TRUE]

(***************************************************************************)
(* The handlers.  A handler created by a render reads the state values of  *)
(* that render (cl, its closure); the set-state calls it makes act on the  *)
(* state at the time they are applied (st), which a functional updater     *)
(* also reads.  When every input is handled by the handlers of the latest  *)
(* render, cl = st.                                                        *)
(***************************************************************************)

\* resetAll without setOverwrite(false).
resetAll_KeepsOverwrite(st) == [InitialState EXCEPT !.overwrite = st.overwrite]

resetAll(st) == InitialState

onClear(cl, st) == resetAll(st)

\* onBackspace without the overwrite branch.
onBackspace_NoOverwriteCheck(cl, st) ==
  IF cl.error THEN resetAll(st)
  ELSE LET val == st.currentValue
           next == SubSeq(val, 1, Len(val) - 1)
       IN  [st EXCEPT !.currentValue =
              IF Len(val) <= 1 THEN Zero
              ELSE IF next = <<"-">> THEN Zero ELSE next]

\* onBackspace without the test of the length.
onBackspace_NoLengthCheck(cl, st) ==
  IF cl.error THEN resetAll(st)
  ELSE IF cl.overwrite
       THEN [st EXCEPT !.currentValue = Zero, !.overwrite = FALSE]
  ELSE LET val == st.currentValue
           next == SubSeq(val, 1, Len(val) - 1)
       IN  [st EXCEPT !.currentValue = IF next = <<"-">> THEN Zero ELSE next]

\* onBackspace without the error branch.
onBackspace_NoErrorCheck(cl, st) ==
  IF cl.overwrite
  THEN [st EXCEPT !.currentValue = Zero, !.overwrite = FALSE]
  ELSE LET val == st.currentValue
           next == SubSeq(val, 1, Len(val) - 1)
       IN  [st EXCEPT !.currentValue =
              IF Len(val) <= 1 THEN Zero
              ELSE IF next = <<"-">> THEN Zero ELSE next]

onBackspace(cl, st) ==
  IF cl.error THEN resetAll(st)
  ELSE IF cl.overwrite
       THEN [st EXCEPT !.currentValue = Zero, !.overwrite = FALSE]
  ELSE LET val == st.currentValue
           next == SubSeq(val, 1, Len(val) - 1)
       IN  [st EXCEPT !.currentValue =
              IF Len(val) <= 1 THEN Zero
              ELSE IF next = <<"-">> THEN Zero ELSE next]

\* onDigit without setOverwrite(false) in the updater.
onDigit_KeepsOverwrite(cl, st, d) ==
  IF cl.error
  THEN [st EXCEPT !.error = FALSE, !.currentValue = <<d>>, !.overwrite = FALSE,
                  !.previousValue = Null, !.operator = NoOp]
  ELSE IF cl.overwrite
       THEN [st EXCEPT !.currentValue = <<d>>]
  ELSE LET val == st.currentValue
           next == IF val = Zero THEN <<d>> ELSE Append(val, d)
       IN  [st EXCEPT !.currentValue = sanitizeNumberString(next)]

\* onDigit that appends without the test for "0" and without sanitizing.
onDigit_AppendsOnly(cl, st, d) ==
  IF cl.error
  THEN [st EXCEPT !.error = FALSE, !.currentValue = <<d>>, !.overwrite = FALSE,
                  !.previousValue = Null, !.operator = NoOp]
  ELSE IF cl.overwrite
       THEN [st EXCEPT !.currentValue = <<d>>, !.overwrite = FALSE]
  ELSE [st EXCEPT !.currentValue = Append(st.currentValue, d)]

onDigit(cl, st, d) ==
  IF cl.error
  THEN [st EXCEPT !.error = FALSE, !.currentValue = <<d>>, !.overwrite = FALSE,
                  !.previousValue = Null, !.operator = NoOp]
  ELSE IF cl.overwrite
       THEN [st EXCEPT !.currentValue = <<d>>, !.overwrite = FALSE]
  ELSE LET val == st.currentValue
           next == IF val = Zero THEN <<d>> ELSE Append(val, d)
       IN  [st EXCEPT !.currentValue = sanitizeNumberString(next)]

\* onDecimal without the test for a point already typed.
onDecimal_NoPointCheck(cl, st) ==
  IF cl.error
  THEN [st EXCEPT !.error = FALSE, !.currentValue = ZeroDot, !.overwrite = FALSE,
                  !.previousValue = Null, !.operator = NoOp]
  ELSE IF cl.overwrite
       THEN [st EXCEPT !.currentValue = ZeroDot, !.overwrite = FALSE]
  ELSE [st EXCEPT !.currentValue = Append(st.currentValue, ".")]

onDecimal(cl, st) ==
  IF cl.error
  THEN [st EXCEPT !.error = FALSE, !.currentValue = ZeroDot, !.overwrite = FALSE,
                  !.previousValue = Null, !.operator = NoOp]
  ELSE IF cl.overwrite
       THEN [st EXCEPT !.currentValue = ZeroDot, !.overwrite = FALSE]
  ELSE LET val == st.currentValue
       IN  IF \E i \in 1..Len(val) : val[i] = "." THEN st
           ELSE [st EXCEPT !.currentValue = Append(val, ".")]

\* onOperator without setCurrentValue(result) after the chained computation.
onOperator_KeepsEntry(cl, st, op) ==
  IF cl.error THEN st
  ELSE IF cl.previousValue # Null /\ cl.operator # NoOp /\ ~cl.overwrite
       THEN LET result == compute(cl.previousValue, cl.currentValue, cl.operator)
            IN  IF result = ErrorStr
                THEN [st EXCEPT !.error = TRUE, !.currentValue = ErrorStr,
                                !.previousValue = Null, !.operator = NoOp,
                                !.overwrite = TRUE]
                ELSE [st EXCEPT !.previousValue = result, !.operator = op,
                                !.overwrite = TRUE]
  ELSE [st EXCEPT !.previousValue = cl.currentValue, !.operator = op,
                  !.overwrite = TRUE]

\* onOperator without setOverwrite(true).
onOperator_NoOverwrite(cl, st, op) ==
  IF cl.error THEN st
  ELSE IF cl.previousValue # Null /\ cl.operator # NoOp /\ ~cl.overwrite
       THEN LET result == compute(cl.previousValue, cl.currentValue, cl.operator)
            IN  IF result = ErrorStr
                THEN [st EXCEPT !.error = TRUE, !.currentValue = ErrorStr,
                                !.previousValue = Null, !.operator = NoOp,
                                !.overwrite = TRUE]
                ELSE [st EXCEPT !.previousValue = result, !.currentValue = result,
                                !.operator = op]
  ELSE [st EXCEPT !.previousValue = cl.currentValue, !.operator = op]

\* onOperator that applies the pending operator whatever overwrite is.
onOperator_ChainsWhilePrimed(cl, st, op) ==
  IF cl.error THEN st
  ELSE IF cl.previousValue # Null /\ cl.operator # NoOp
       THEN LET result == compute(cl.previousValue, cl.currentValue, cl.operator)
            IN  IF result = ErrorStr
                THEN [st EXCEPT !.error = TRUE, !.currentValue = ErrorStr,
                                !.previousValue = Null, !.operator = NoOp,
                                !.overwrite = TRUE]
                ELSE [st EXCEPT !.previousValue = result, !.currentValue = result,
                                !.operator = op, !.overwrite = TRUE]
  ELSE [st EXCEPT !.previousValue = cl.currentValue, !.operator = op,
                  !.overwrite = TRUE]

\* onOperator that never applies the pending operator.
onOperator_NoChain(cl, st, op) ==
  IF cl.error THEN st
  ELSE [st EXCEPT !.previousValue = cl.currentValue, !.operator = op,
                  !.overwrite = TRUE]

\* onOperator without the return that ends the division-by-zero branch.
onOperator_FallsThrough(cl, st, op) ==
  IF cl.error THEN st
  ELSE IF cl.previousValue # Null /\ cl.operator # NoOp /\ ~cl.overwrite
       THEN LET result == compute(cl.previousValue, cl.currentValue, cl.operator)
            IN  [st EXCEPT !.error = (result = ErrorStr) \/ st.error,
                           !.previousValue = result, !.currentValue = result,
                           !.operator = op, !.overwrite = TRUE]
  ELSE [st EXCEPT !.previousValue = cl.currentValue, !.operator = op,
                  !.overwrite = TRUE]

\* onOperator without the error branch.
onOperator_NoErrorCheck(cl, st, op) ==
  IF cl.previousValue # Null /\ cl.operator # NoOp /\ ~cl.overwrite
  THEN LET result == compute(cl.previousValue, cl.currentValue, cl.operator)
       IN  IF result = ErrorStr
           THEN [st EXCEPT !.error = TRUE, !.currentValue = ErrorStr,
                           !.previousValue = Null, !.operator = NoOp,
                           !.overwrite = TRUE]
           ELSE [st EXCEPT !.previousValue = result, !.currentValue = result,
                           !.operator = op, !.overwrite = TRUE]
  ELSE [st EXCEPT !.previousValue = cl.currentValue, !.operator = op,
                  !.overwrite = TRUE]

onOperator(cl, st, op) ==
  IF cl.error THEN st
  ELSE IF cl.previousValue # Null /\ cl.operator # NoOp /\ ~cl.overwrite
       THEN LET result == compute(cl.previousValue, cl.currentValue, cl.operator)
            IN  IF result = ErrorStr
                THEN [st EXCEPT !.error = TRUE, !.currentValue = ErrorStr,
                                !.previousValue = Null, !.operator = NoOp,
                                !.overwrite = TRUE]
                ELSE [st EXCEPT !.previousValue = result, !.currentValue = result,
                                !.operator = op, !.overwrite = TRUE]
  ELSE [st EXCEPT !.previousValue = cl.currentValue, !.operator = op,
                  !.overwrite = TRUE]

\* onEquals without setOverwrite(true) after a result.
onEquals_NoOverwrite(cl, st) ==
  IF cl.error THEN resetAll(st)
  ELSE IF cl.previousValue = Null \/ cl.operator = NoOp THEN st
  ELSE LET result == compute(cl.previousValue, cl.currentValue, cl.operator)
       IN  IF result = ErrorStr
           THEN [st EXCEPT !.error = TRUE, !.currentValue = ErrorStr,
                           !.previousValue = Null, !.operator = NoOp,
                           !.overwrite = TRUE]
           ELSE [st EXCEPT !.currentValue = result, !.previousValue = Null,
                           !.operator = NoOp]

\* onEquals without setOperator(null) after a result.
onEquals_KeepsOperator(cl, st) ==
  IF cl.error THEN resetAll(st)
  ELSE IF cl.previousValue = Null \/ cl.operator = NoOp THEN st
  ELSE LET result == compute(cl.previousValue, cl.currentValue, cl.operator)
       IN  IF result = ErrorStr
           THEN [st EXCEPT !.error = TRUE, !.currentValue = ErrorStr,
                           !.previousValue = Null, !.operator = NoOp,
                           !.overwrite = TRUE]
           ELSE [st EXCEPT !.currentValue = result, !.previousValue = Null,
                           !.overwrite = TRUE]

\* onEquals that ignores the key in the error state.
onEquals_IgnoredInError(cl, st) ==
  IF cl.error THEN st
  ELSE IF cl.previousValue = Null \/ cl.operator = NoOp THEN st
  ELSE LET result == compute(cl.previousValue, cl.currentValue, cl.operator)
       IN  IF result = ErrorStr
           THEN [st EXCEPT !.error = TRUE, !.currentValue = ErrorStr,
                           !.previousValue = Null, !.operator = NoOp,
                           !.overwrite = TRUE]
           ELSE [st EXCEPT !.currentValue = result, !.previousValue = Null,
                           !.operator = NoOp, !.overwrite = TRUE]

\* onEquals that keeps the pending operand and operator after a result.
onEquals_KeepsPending(cl, st) ==
  IF cl.error THEN resetAll(st)
  ELSE IF cl.previousValue = Null \/ cl.operator = NoOp THEN st
  ELSE LET result == compute(cl.previousValue, cl.currentValue, cl.operator)
       IN  IF result = ErrorStr
           THEN [st EXCEPT !.error = TRUE, !.currentValue = ErrorStr,
                           !.previousValue = Null, !.operator = NoOp,
                           !.overwrite = TRUE]
           ELSE [st EXCEPT !.currentValue = result, !.overwrite = TRUE]

onEquals(cl, st) ==
  IF cl.error THEN resetAll(st)
  ELSE IF cl.previousValue = Null \/ cl.operator = NoOp THEN st
  ELSE LET result == compute(cl.previousValue, cl.currentValue, cl.operator)
       IN  IF result = ErrorStr
           THEN [st EXCEPT !.error = TRUE, !.currentValue = ErrorStr,
                           !.previousValue = Null, !.operator = NoOp,
                           !.overwrite = TRUE]
           ELSE [st EXCEPT !.currentValue = result, !.previousValue = Null,
                           !.operator = NoOp, !.overwrite = TRUE]

(* ------------------------------ actions -------------------------------- *)

\* Every number the state holds is one the model tracks.
InModel(st) == st.currentValue # Unmodelled /\ st.previousValue # Unmodelled

\* The render that follows an input: the state cells take the values set.
Commit(st) ==
  /\ InModel(st)
  /\ currentValue' = st.currentValue
  /\ previousValue' = st.previousValue
  /\ operator' = st.operator
  /\ overwrite' = st.overwrite
  /\ error' = st.error

Digit(d) ==
  /\ Len(onDigit(State, State, d).currentValue) <= MaxLen
  /\ Commit(onDigit(State, State, d))
  /\ UNCHANGED <<script, pos>>

Decimal ==
  /\ Len(onDecimal(State, State).currentValue) <= MaxLen
  /\ Commit(onDecimal(State, State))
  /\ UNCHANGED <<script, pos>>

Operator(op) ==
  /\ Commit(onOperator(State, State, op))
  /\ UNCHANGED <<script, pos>>

Equals ==
  /\ Commit(onEquals(State, State))
  /\ UNCHANGED <<script, pos>>

Clear ==
  /\ Commit(onClear(State, State))
  /\ UNCHANGED <<script, pos>>

Backspace ==
  /\ Commit(onBackspace(State, State))
  /\ UNCHANGED <<script, pos>>

Init ==
  /\ currentValue = Zero
  /\ previousValue = Null
  /\ operator = NoOp
  /\ overwrite = FALSE
  /\ error = FALSE
  /\ script = <<>>
  /\ pos = 0

Next ==
  \/ \E d \in Digits : Digit(d)
  \/ Decimal
  \/ \E op \in Ops : Operator(op)
  \/ Equals
  \/ Clear
  \/ Backspace

Spec == Init /\ [][Next]_vars

(* ----------------------- keyboard and display -------------------------- *)

\* Longest value shown as it is.
DisplayMaxLen == 14

\* The keydown listener: the handler a key is mapped to; any other key is
\* ignored.
onKeyDown(cl, st, key) ==
  IF key \in AllDigits THEN onDigit(cl, st, key)
  ELSE IF key = "." \/ key = "," THEN onDecimal(cl, st)
  ELSE IF key = "+" \/ key = "-" THEN onOperator(cl, st, key)
  ELSE IF key = "*" THEN onOperator(cl, st, Times)
  ELSE IF key = "/" THEN onOperator(cl, st, Divide)
  ELSE IF key = "Enter" \/ key = "=" THEN onEquals(cl, st)
  ELSE IF key = "Backspace" THEN onBackspace(cl, st)
  ELSE IF key = "Escape" THEN onClear(cl, st)
  ELSE st

\* The text of the display.  A value longer than DisplayMaxLen is shown by
\* toPrecision, which the model does not track.
displayValue(st) ==
  IF st.error THEN ErrorStr
  ELSE IF st.currentValue[Len(st.currentValue)] = "." THEN st.currentValue
  ELSE LET val == sanitizeNumberString(st.currentValue)
       IN  IF Len(val) > DisplayMaxLen /\ NumberOf(val).k # "nan"
           THEN Unmodelled
           ELSE val

(***************************************************************************)
(* SpecKeys: one sequence of keys, typed from the initial state, each key  *)
(* handled by the listener of the latest render.                           *)
(***************************************************************************)

\* Operands of the chained computations typed.
ChainNums == {0, 2, 3, 4, 12}

OpKeys == {"+", "-", "*", "/"}

\* n1 op1 n2 op2 n3 =
ChainScript(n1, k1, n2, k2, n3) ==
  NatToString(n1) \o <<k1>> \o NatToString(n2) \o <<k2>> \o NatToString(n3)
    \o <<"=">>

\* Further key sequences.
ExampleScripts ==
  { <<"5", "/", "0", "=", "1">>,
    <<"5", "/", "0", "Enter", "Enter", "Enter">>,
    <<"2", "+", "*", "3", "=">>,
    <<"1", "2", "3", "Backspace", ".", ",", "5">>,
    <<"0", "0", "7", "a", "Escape", "9">> }

\* Most digit keys of a sequence of digit keys only.
MaxDigitsTyped == 4

\* The sequences of digit keys only.
DigitScripts == UNION {[1..n -> {"0", "1", "2", "3"}] : n \in 1..MaxDigitsTyped}

InitKeys ==
  /\ currentValue = Zero
  /\ previousValue = Null
  /\ operator = NoOp
  /\ overwrite = FALSE
  /\ error = FALSE
  /\ pos = 0
  /\ \/ \E n1, n2, n3 \in ChainNums : \E k1, k2 \in OpKeys :
          script = ChainScript(n1, k1, n2, k2, n3)
     \/ script \in ExampleScripts
     \/ script \in DigitScripts

KeyDown ==
  /\ pos < Len(script)
  /\ Commit(onKeyDown(State, State, script[pos + 1]))
  /\ pos' = pos + 1
  /\ UNCHANGED script

NextKeys == KeyDown

SpecKeys == InitKeys /\ [][NextKeys]_vars

(***************************************************************************)
(* SpecHist: keys typed one at a time from the initial state, in any       *)
(* order; script is the sequence of the keys typed so far, pos its length. *)
(***************************************************************************)

\* Most keys typed.
MaxKeys == 5

\* The keys typed.
HistKeys ==
  {"0", "2", "3", ".", "+", "-", "*", "/", "=", "Backspace", "Escape"}

InitHist ==
  /\ currentValue = Zero
  /\ previousValue = Null
  /\ operator = NoOp
  /\ overwrite = FALSE
  /\ error = FALSE
  /\ script = <<>>
  /\ pos = 0

TypeKey(key) ==
  /\ pos < MaxKeys
  /\ Commit(onKeyDown(State, State, key))
  /\ script' = Append(script, key)
  /\ pos' = pos + 1

NextHist == \E key \in HistKeys : TypeKey(key)

SpecHist == InitHist /\ [][NextHist]_vars

(***************************************************************************)
(* SpecStale: as SpecHist, and two keys may reach the keydown listener of  *)
(* one render: both are handled by the handlers that render created, which *)
(* read its state values, and the state is rendered after the second.      *)
(***************************************************************************)

TypeTwoKeys(key1, key2) ==
  /\ pos + 2 <= MaxKeys
  /\ Commit(onKeyDown(State, onKeyDown(State, State, key1), key2))
  /\ script' = script \o <<key1, key2>>
  /\ pos' = pos + 2

NextStale ==
  \/ \E key \in HistKeys : TypeKey(key)
  \/ \E key1, key2 \in HistKeys : TypeTwoKeys(key1, key2)

SpecStale == InitHist /\ [][NextStale]_vars

(* ------------------------------ claims --------------------------------- *)

\* The state after a step.
StateNext ==
  [currentValue |-> currentValue', previousValue |-> previousValue',
   operator |-> operator', overwrite |-> overwrite', error |-> error']

\* Left-to-right evaluation of the first n keys of a chain n1 op1 n2 op2 ...
\* in exact arithmetic (numbers held as multiples of 1/Scale): acc is the
\* value up to the last operator key, k that key, cur the operand being
\* typed, div0 whether a division by zero was met.
RefApply(a, k, b) ==
  CASE k = "+" -> a + b
    [] k = "-" -> a - b
    [] k = "*" -> (a * b) \div Scale
    [] k = "/" -> IF b = 0 THEN 0 ELSE (a * Scale) \div b

RECURSIVE LeftToRight(_, _)
LeftToRight(keys, n) ==
  IF n = 0 THEN [acc |-> 0, k |-> "none", cur |-> 0, div0 |-> FALSE]
  ELSE LET p == LeftToRight(keys, n - 1)
           c == keys[n]
       IN  IF c \in AllDigits
           THEN [p EXCEPT !.cur = p.cur * 10 + DigitVal(c)]
           ELSE [acc |-> IF p.k = "none" THEN p.cur * Scale
                         ELSE RefApply(p.acc, p.k, p.cur * Scale),
                 k |-> c, cur |-> 0,
                 div0 |-> p.div0 \/ (p.k = "/" /\ p.cur = 0)]

\* keys is n1 op1 n2 op2 ... nk =, every ni a non-empty digit sequence.
IsChain(keys) ==
  /\ Len(keys) >= 2
  /\ keys[1] \in AllDigits
  /\ keys[Len(keys)] = "="
  /\ \A i \in 1..Len(keys) - 1 : keys[i] \in AllDigits \cup OpKeys
  /\ \A i \in 2..Len(keys) : keys[i] \notin AllDigits => keys[i - 1] \in AllDigits

ReadmeChain == <<"2", "+", "3", "*", "4", "=">>

C2_ReadmeShows14 ==
  (script = ReadmeChain /\ pos = Len(script)) => displayValue(State) = <<"1", "4">>

\* A pending division whose divisor, the current value, parses to zero.
DivByZeroPending ==
  /\ previousValue # Null
  /\ operator = Divide
  /\ parseFloat(currentValue) = Num(0)

EqualsStep == StateNext = onEquals(State, State)

OperatorStep == \E op \in Ops : StateNext = onOperator(State, State, op)

C4_ErrorStateCleared ==
  error => (currentValue = ErrorStr /\ previousValue = Null /\ operator = NoOp)

C4_Witness == error /\ currentValue = ErrorStr /\ overwrite

\* C5: the pending operator is set if and only if the pending operand is.
C5_PendingBothOrNeither == (operator # NoOp) <=> (previousValue # Null)

C5_Witness == operator # NoOp /\ previousValue # Null /\ ~overwrite

\* The states the inputs other than Operator and Equals lead to.
ExitResults ==
  {onDigit(State, State, d) : d \in Digits}
    \cup {onDecimal(State, State), onClear(State, State), onBackspace(State, State)}

OperatorResults == {onOperator(State, State, op) : op \in Ops}

\* C6 as stated: in the error state Operator and Equals change no field, and
\* Digit, Decimal, Clear and Backspace leave the error state.
C6_OperatorEqualsNoOp ==
  error => /\ \A st \in OperatorResults : st = State
           /\ onEquals(State, State) = State
           /\ \A st \in ExitResults : ~st.error

\* C6, amended: in the error state Operator changes no field, and Digit,
\* Decimal, Clear, Backspace and Equals each leave the error state.
C6_OnlyOperatorIgnored ==
  error => /\ \A st \in OperatorResults : st = State
           /\ \A st \in ExitResults \cup {onEquals(State, State)} : ~st.error

C6_Witness == error /\ ~onEquals(State, State).error

\* C7: Equals in the error state sets every field to its initial value, as
\* Clear does.
C7_EqualsResetsError ==
  error => /\ onEquals(State, State) = InitialState
           /\ onEquals(State, State) = onClear(State, State)

C7_Witness == error /\ onEquals(State, State) = InitialState

\* C8: Operator(op), for each of the four operators, in the error state
\* leaves the five fields as they are.
C8_OperatorIgnoredInError ==
  error => \A op \in Ops : onOperator(State, State, op) = State

C8_Witness ==
  error /\ onOperator(State, State, Divide) = ErrorState

\* C9: from every reachable state, Clear gives the initial state.
C9_ClearResets == onClear(State, State) = InitialState

C9_Witness ==
  /\ previousValue # Null
  /\ currentValue # Zero
  /\ overwrite
  /\ onClear(State, State) = InitialState

\* Equals applied once, and twice, to the state.
EqualsOnce == onEquals(State, State)

EqualsTwice == onEquals(EqualsOnce, EqualsOnce)

\* C10 as stated: from every reachable state, a second Equals changes no
\* field.
C10_EqualsIdempotent == EqualsTwice = EqualsOnce

\* C10, amended: from every reachable state in which Equals does not enter
\* the error state, a second Equals changes no field.
C10_EqualsIdempotentUnlessError ==
  ~(EqualsOnce.error /\ ~error) => EqualsTwice = EqualsOnce

C10_Witness ==
  /\ previousValue # Null
  /\ EqualsOnce # State
  /\ ~EqualsOnce.error
  /\ InModel(EqualsOnce)
  /\ EqualsTwice = EqualsOnce

\* The decimal points of s.
CountDots(s) == Cardinality({i \in 1..Len(s) : s[i] = "."})

\* C11 as stated: the current value never holds more than one decimal
\* point, and Decimal on a value that holds a point changes nothing.
C11_OnePointDecimalNoOp ==
  /\ CountDots(currentValue) <= 1
  /\ CountDots(currentValue) = 1 => onDecimal(State, State) = State

\* C11, amended: the current value never holds more than one decimal point,
\* and Decimal on a value that holds a point changes nothing while overwrite
\* is false.
C11_OnePointDecimalNoOpWhileTyping ==
  /\ CountDots(currentValue) <= 1
  /\ (CountDots(currentValue) = 1 /\ ~overwrite) => onDecimal(State, State) = State

C11_Witness ==
  /\ currentValue = <<"0", ".", "5">>
  /\ ~overwrite
  /\ onDecimal(State, State) = State

\* C12: the current value is never the empty string; it is "0" in the
\* initial state, and Backspace on a one-character value gives "0".
C12_NeverEmpty ==
  /\ Len(currentValue) >= 1
  /\ InitialState.currentValue = Zero
  /\ Len(onBackspace(State, State).currentValue) >= 1
  /\ Len(currentValue) = 1 => onBackspace(State, State).currentValue = Zero

C12_Witness ==
  /\ currentValue = <<"5">>
  /\ ~overwrite
  /\ onBackspace(State, State).currentValue = Zero

\* C18: while an operator is pending and overwrite is true, the pending
\* operand equals the current value; so Equals applies the operator to that
\* value on both sides, and another Operator leaves the pending operand.
C18_PrimedOperandIsEntry ==
  (operator # NoOp /\ overwrite)
  => /\ previousValue = currentValue
     /\ onEquals(State, State).currentValue
          = compute(currentValue, currentValue, operator)
     /\ \A op \in Ops : onOperator(State, State, op).previousValue = previousValue

C18_Witness ==
  /\ operator = Minus
  /\ overwrite
  /\ previousValue = <<"2", ".", "5">>
  /\ onEquals(State, State).currentValue = Zero

\* An entry as typed: digits with at most one point, and no redundant
\* leading zero.
WellFormedEntry(s) ==
  /\ \A i \in 1..Len(s) : s[i] \in AllDigits \cup {"."}
  /\ CountDots(s) <= 1
  /\ \/ s = Zero
     \/ startsWith(s, ZeroDot)
     \/ Len(s) >= 1 /\ s[1] \in AllDigits \ {"0"}

\* sanitizeNumberString(str) takes its trimming branch.
Trims(str) ==
  /\ str # <<>>
  /\ str # Zero
  /\ startsWith(str, Zero) /\ ~startsWith(str, ZeroDot) /\ Len(str) > 1

\* C19: while error and overwrite are false the current value is a
\* well-formed entry without a minus sign; so Backspace never meets a lone
\* "-", and neither onDigit nor the display ever has leading zeros to trim.
C19_EntriesWellFormed ==
  /\ (~error /\ ~overwrite)
     => /\ WellFormedEntry(currentValue)
        /\ SubSeq(currentValue, 1, Len(currentValue) - 1) # <<"-">>
        /\ \A d \in AllDigits :
             ~Trims(IF currentValue = Zero THEN <<d>> ELSE Append(currentValue, d))
  /\ (\E i \in 1..Len(currentValue) : currentValue[i] = "-") => overwrite
  /\ (~error /\ currentValue[Len(currentValue)] # ".") => ~Trims(currentValue)

C19_Witness ==
  /\ ~error
  /\ ~overwrite
  /\ previousValue = <<"-", "1">>
  /\ currentValue = <<"0", ".", "5">>

EqualsKeys == {"Enter", "="}

DecimalKeys == {".", ","}

\* The key typed by the step.
KeyTyped == script'[pos']

\* C13 as stated: Backspace right after Equals or Operator sets the current
\* value to "0" and overwrite to false, and leaves the pending operand and
\* operator.
C13_BackspaceAfterEqualsOrOperator ==
  [][(pos >= 1 /\ script[pos] \in OpKeys \cup EqualsKeys /\ KeyTyped = "Backspace")
     => /\ currentValue' = Zero
        /\ ~overwrite'
        /\ previousValue' = previousValue
        /\ operator' = operator]_vars

\* C13, amended: Backspace right after Equals or Operator, while overwrite
\* or error is true, sets the current value to "0" and overwrite to false,
\* and leaves the pending operand and operator.
C13_BackspaceWhilePrimed ==
  [][(pos >= 1 /\ script[pos] \in OpKeys \cup EqualsKeys /\ KeyTyped = "Backspace"
        /\ (overwrite \/ error))
     => /\ currentValue' = Zero
        /\ ~overwrite'
        /\ previousValue' = previousValue
        /\ operator' = operator]_vars

C13_Witness ==
  /\ script = <<"2", "3", "+", "Backspace">>
  /\ currentValue = Zero
  /\ previousValue = <<"2", "3">>
  /\ ~overwrite

\* C14 as stated: overwrite is true right after every Operator typed in a
\* state without error, after every Equals, and after every step that sets
\* error; it is false right after every Digit.
C14_OverwriteAfterInput ==
  [][/\ (KeyTyped \in OpKeys /\ ~error) => overwrite'
     /\ KeyTyped \in EqualsKeys => overwrite'
     /\ (~error /\ error') => overwrite'
     /\ KeyTyped \in AllDigits => ~overwrite']_vars

\* C14, amended: as C14, but for Equals only when it is typed without error
\* and with an operation pending.
C14_OverwriteAfterApplied ==
  [][/\ (KeyTyped \in OpKeys /\ ~error) => overwrite'
     /\ (KeyTyped \in EqualsKeys /\ ~error /\ previousValue # Null) => overwrite'
     /\ (~error /\ error') => overwrite'
     /\ KeyTyped \in AllDigits => ~overwrite']_vars

C14_Witness ==
  /\ script = <<"2", "/", "0", "=">>
  /\ error
  /\ overwrite

\* C16: Operator typed while an operator is pending and overwrite is true
\* only replaces the pending operator; 2 + × 3 = gives 6, without error.
C16_OperatorReplaced ==
  /\ (operator # NoOp /\ overwrite /\ ~error)
     => \A op \in Ops : onOperator(State, State, op) = [State EXCEPT !.operator = op]
  /\ script = <<"2", "+", "*">>
     => (~error /\ currentValue = <<"2">> /\ previousValue = <<"2">>
           /\ operator = Times)
  /\ script = <<"2", "+", "*", "3", "=">> => (~error /\ currentValue = <<"6">>)

C16_Witness ==
  /\ script = <<"2", "+", "*", "3", "=">>
  /\ currentValue = <<"6">>

\* The place in the keys typed of the last operator key; 0 if there is none.
LastOperatorKey ==
  LET at == {i \in 1..pos : script[i] \in OpKeys}
  IN  IF at = {} THEN 0 ELSE CHOOSE i \in at : \A j \in at : j <= i

\* C17 as stated: while an operator is pending and overwrite is false, a
\* Digit or a Decimal was typed after the operator was set.
C17_OperandTyped ==
  (operator # NoOp /\ ~overwrite)
  => \E j \in LastOperatorKey + 1 .. pos : script[j] \in AllDigits \cup DecimalKeys

\* C17, amended: while an operator is pending and overwrite is false, a
\* Digit, a Decimal or a Backspace was typed after the operator was set.
C17_OperandTypedOrCleared ==
  (operator # NoOp /\ ~overwrite)
  => \E j \in LastOperatorKey + 1 .. pos :
       script[j] \in AllDigits \cup DecimalKeys \cup {"Backspace"}

C17_Witness ==
  /\ script = <<"2", "+", "Backspace">>
  /\ operator = Plus
  /\ ~overwrite
  /\ currentValue = Zero
  /\ onOperator(State, State, Times).currentValue = <<"2">>

\* s without its redundant leading zeros.
RECURSIVE StripLeadingZeros(_)
StripLeadingZeros(s) ==
  IF Len(s) > 1 /\ s[1] = "0" THEN StripLeadingZeros(Tail(s)) ELSE s

\* C15: digits d1 .. dn typed from the initial state give the current value
\* d1 .. dn without its redundant leading zeros; 1, 2, 3 gives "123", and
\* zeros alone give "0".
C15_DigitsConcatenate ==
  (pos >= 1 /\ \A i \in 1..pos : script[i] \in AllDigits)
  => /\ currentValue = StripLeadingZeros(SubSeq(script, 1, pos))
     /\ SubSeq(script, 1, pos) = <<"1", "2", "3">> => currentValue = <<"1", "2", "3">>
     /\ (\A i \in 1..pos : script[i] = "0") => currentValue = Zero
     /\ ~overwrite /\ ~error /\ previousValue = Null /\ operator = NoOp

C15_Witness ==
  /\ script = <<"0", "0", "1", "0">>
  /\ pos = 4
  /\ currentValue = <<"1", "0">>

\* The state after the first n of the keys, each handled on the state the
\* one before it left.
RECURSIVE SequentialState(_, _)
SequentialState(keys, n) ==
  IF n = 0 THEN InitialState
  ELSE LET before == SequentialState(keys, n - 1)
       IN  onKeyDown(before, before, keys[n])

\* C20: the inputs take effect in the order received, each on the state the
\* one before it left, also when two of them reach the handlers of one
\* render.
C20_InputsInOrder == State = SequentialState(script, pos)

=============================================================================
